---- MODULE Spec2Model ----
(***************************************************************************)
(* euler::prime_table<T> and euler::prime_iterator<T>                      *)
(* (src/src/euler/prime_table.hpp), T a signed integer type.               *)
(*                                                                         *)
(* The constructor is modelled statement by statement (pc is its position),*)
(* the const member functions and the iterator operators as one action     *)
(* each.  All values stay far below the width of T for the limits checked, *)
(* so T's arithmetic is modelled by the integers, with C++'s truncating    *)
(* division.                                                               *)
(***************************************************************************)
EXTENDS Integers, Sequences, FiniteSets

VARIABLES
  pc,               \* position in prime_table::prime_table
  N,                \* the constructor's argument
  window,           \* the local `window` of the constructor
  _limit,           \* prime_table::_limit
  table,            \* prime_table::table, a function 0..size-1 -> BOOLEAN
  K, SMALL_N, SMALL_K,
  k, p, t, i,       \* loop variables of the constructor
  prime_p, next_multiple_t,
  segment_start, segment_end,
  segments,         \* history: the windows <<segment_start, segment_end>> processed
  acc,              \* history: the bit indices the last step passed to the bit store
  cur,              \* prime_iterator::_current of each cursor (NoCursor: none)
  hist,             \* history: the values _current of each cursor has taken
  ret,              \* the last call on the table or on a cursor, and its result
  lhs, rhs,         \* two iterators built by prime_iterator(table, current)
  eq, ne            \* the results of lhs == rhs and lhs != rhs

vars == <<pc, N, window, _limit, table, K, SMALL_N, SMALL_K, k, p, t, i,
          prime_p, next_multiple_t, segment_start, segment_end, segments,
          acc, cur, hist, ret, lhs, rhs, eq, ne>>

ctorLocals == <<K, SMALL_N, SMALL_K, k, p, t, i, prime_p, next_multiple_t,
                segment_start, segment_end>>
cmpVars == <<lhs, rhs, eq, ne>>
useVars == <<cur, hist, ret>>

(***************************************************************************)
(* Bounds of the model.                                                    *)
(***************************************************************************)
MaxN == 125
MaxSmallWindow == 3
MaxCurrent == 5
MaxUseN == 30
LbSlack == 2

\* line 190: T window = 32*1000*16/2
WINDOW == (32 * 1000 * 16) \div 2

\* the window widths tried: the program's, and small ones that split the
\* range of the limits checked into several windows
Windows == (1..MaxSmallWindow) \cup {WINDOW}

Cursors == {"a", "b"}
Tables == {"t1", "t2"}
NoCursor == 0 - 1
NoRet == [op |-> "none", arg |-> 0, val |-> 0]

(***************************************************************************)
(* Arithmetic of T.                                                        *)
(***************************************************************************)
\* a / b of C++ for b > 0: truncation toward zero
CDiv(a, b) == IF a >= 0 THEN a \div b ELSE 0 - ((0 - a) \div b)

Min(a, b) == IF a < b THEN a ELSE b

\* euler::isqrt (imath.hpp): floor of the square root
isqrt(x) == CHOOSE r \in 0..x : r * r <= x /\ (r + 1) * (r + 1) > x

\* trial division, the reference the table is compared with
IsPrime(n) == n > 1 /\ \A d \in 2..(n - 1) : n % d # 0

(***************************************************************************)
(* dynamic_bitset<> (dynamic_bitset.hpp): size bits, indices 0..size-1.    *)
(***************************************************************************)
BitCreate(size, v) == [j \in 0..(size - 1) |-> v]
BitSize(tb) == Cardinality(DOMAIN tb)
InRange(tb, j) == j \in DOMAIN tb
BitReset(tb, j) == [tb EXCEPT ![j] = FALSE]
BitTest(tb, j) == tb[j]

(***************************************************************************)
(* prime_table: the const member functions.                                *)
(***************************************************************************)
\* line 249: table[n/2]
OddIndex(n) == CDiv(n, 2)

test_odd(tb, n) == BitTest(tb, OddIndex(n))

test(tb, n) ==
  IF n = 1 THEN FALSE
  ELSE IF n = 2 THEN TRUE
  ELSE IF n % 2 = 0 THEN FALSE
  ELSE test_odd(tb, n)

\* the bit indices test(n) reads
testIdx(n) == IF n = 1 \/ n = 2 \/ n % 2 = 0 THEN {} ELSE {OddIndex(n)}

(***************************************************************************)
(* prime_iterator.                                                         *)
(***************************************************************************)
\* operator== comparing the members instead
IterEqMembers(x, y) == x = y

\* operator==: both past-the-end
IterEq(x, y) == (x.current = 0) /\ (y.current = 0)

\* operator!=
IterNe(x, y) == ~ IterEq(x, y)

\* the for loop of operator++, entered with q = _current + 2: the value of p
\* when the loop is left
RECURSIVE Scan(_, _, _)
Scan(q, lim, tb) ==
  IF q <= lim
  THEN IF test_odd(tb, q) THEN q ELSE Scan(q + 2, lim, tb)
  ELSE q

\* operator++: the new value of _current
Advanced(c, lim, tb) ==
  LET q == IF c = 2 THEN 3 ELSE Scan(c + 2, lim, tb)
  IN  IF q <= lim THEN q ELSE 0

\* the bit indices operator++ reads
AdvancedIdx(c, lim, tb) ==
  IF c = 2 THEN {}
  ELSE LET q == Scan(c + 2, lim, tb)
       IN  {OddIndex(c + 2 * j) : j \in {m \in 1..(lim + 1) : c + 2 * m <= Min(q, lim)}}

\* prime_table::begin and prime_table::end
begin == [table |-> "t1", current |-> 2]
end == [table |-> "t1", current |-> 0]

\* prime_table::lower_bound: the loop, entered with it = begin()
RECURSIVE lower_bound_from(_, _, _, _)
lower_bound_from(it, n, lim, tb) ==
  IF IterNe(it, end) /\ it.current < n
  THEN lower_bound_from([it EXCEPT !.current = Advanced(it.current, lim, tb)], n, lim, tb)
  ELSE it

lower_bound(n, lim, tb) == lower_bound_from(begin, n, lim, tb)

RECURSIVE lower_bound_idx(_, _, _, _)
lower_bound_idx(it, n, lim, tb) ==
  IF IterNe(it, end) /\ it.current < n
  THEN AdvancedIdx(it.current, lim, tb) \cup
       lower_bound_idx([it EXCEPT !.current = Advanced(it.current, lim, tb)], n, lim, tb)
  ELSE {}

(***************************************************************************)
(* The constructor prime_table(T N).                                       *)
(***************************************************************************)
NoLocals ==
  /\ K = 0 /\ SMALL_N = 0 /\ SMALL_K = 0
  /\ k = 0 /\ p = 0 /\ t = 0 /\ i = 0
  /\ prime_p = <<>> /\ next_multiple_t = <<>>
  /\ segment_start = 0 /\ segment_end = 0

Init ==
  /\ pc = "call"
  /\ N \in 0..MaxN
  /\ window \in Windows
  /\ _limit = 0
  /\ table = BitCreate(0, TRUE)
  /\ NoLocals
  /\ segments = <<>>
  /\ acc = {}
  /\ cur = [c \in Cursors |-> NoCursor]
  /\ hist = [c \in Cursors |-> <<>>]
  /\ ret = NoRet
  /\ lhs = end /\ rhs = end
  /\ eq = TRUE /\ ne = FALSE

\* the constructor is left (by return or by an exception): its locals are gone
Leave(to) ==
  /\ pc' = to
  /\ N' = 0 /\ window' = 0
  /\ K' = 0 /\ SMALL_N' = 0 /\ SMALL_K' = 0
  /\ k' = 0 /\ p' = 0 /\ t' = 0 /\ i' = 0
  /\ prime_p' = <<>> /\ next_multiple_t' = <<>>
  /\ segment_start' = 0 /\ segment_end' = 0

\* line 145 and 153: _limit(N), table((N+1)/2, true); T K = (N-1)/2
Allocate ==
  /\ pc = "call"
  /\ _limit' = N
  /\ table' = BitCreate(CDiv(N + 1, 2), TRUE)
  /\ K' = CDiv(N - 1, 2)
  /\ pc' = "reset0"
  /\ acc' = {}
  /\ UNCHANGED <<N, window, SMALL_N, SMALL_K, k, p, t, i, prime_p, next_multiple_t,
                 segment_start, segment_end, segments>>
  /\ UNCHANGED useVars /\ UNCHANGED cmpVars

\* line 156: table.reset(0).  With no bit allocated the index is outside the
\* bit store and the behaviour is undefined: the build stops there or goes on
\* with the bit store as it was.
ResetOne ==
  /\ pc = "reset0"
  /\ acc' = {0}
  /\ \/ /\ InRange(table, 0)
        /\ table' = BitReset(table, 0)
        /\ pc' = "sqrt"
        /\ UNCHANGED <<N, window>> /\ UNCHANGED ctorLocals
     \/ /\ ~ InRange(table, 0)
        /\ table' = table
        /\ pc' = "sqrt"
        /\ UNCHANGED <<N, window>> /\ UNCHANGED ctorLocals
     \/ /\ ~ InRange(table, 0)
        /\ table' = table
        /\ Leave("crashed")
  /\ UNCHANGED <<_limit, segments>>
  /\ UNCHANGED useVars /\ UNCHANGED cmpVars

\* line 163: SMALL_N / std::log(SMALL_N) is +infinity for SMALL_N = 1, and its
\* conversion to T is undefined
EstimateDefined(sn) == sn # 1

\* lines 161-171: SMALL_N, SMALL_K, estimated_small_count and the two reserve
\* calls.  Where the estimate is undefined, reserve is handed an arbitrary
\* count: it throws std::length_error, or it returns.
SmallSetup ==
  /\ pc = "sqrt"
  /\ acc' = {}
  /\ \/ /\ SMALL_N' = isqrt(N)
        /\ SMALL_K' = CDiv(isqrt(N) - 1, 2)
        /\ prime_p' = <<>> /\ next_multiple_t' = <<>>
        /\ k' = 1
        /\ pc' = "boot"
        /\ UNCHANGED <<N, window, K, p, t, i, segment_start, segment_end>>
     \/ /\ ~ EstimateDefined(isqrt(N))
        /\ Leave("threw")
  /\ UNCHANGED <<_limit, table, segments>>
  /\ UNCHANGED useVars /\ UNCHANGED cmpVars

\* the crossing out started one multiple late, at p*(p+2)
SquareIndexLate(j) == 2 * j * (j + 1) + (2 * j + 1)

\* line 179: T t = 2*k*(k+1), the index of p*p
SquareIndex(j) == 2 * j * (j + 1)

\* the inner bootstrap loop stopping one index early
BootCondStrict(tt, sk) == tt < sk

\* line 180: the condition of the inner bootstrap loop
BootCond(tt, sk) == tt <= sk

\* lines 174-179: the head of the bootstrap loop and the test of bit k
BootHead ==
  /\ pc = "boot"
  /\ IF k <= SMALL_K
     THEN /\ acc' = {k}
          /\ IF BitTest(table, k)
             THEN /\ p' = k * 2 + 1
                  /\ t' = SquareIndex(k)
                  /\ pc' = "bootInner"
                  /\ UNCHANGED <<k, segment_start>>
             ELSE /\ k' = k + 1
                  /\ UNCHANGED <<p, t, pc, segment_start>>
     ELSE /\ acc' = {}
          /\ segment_start' = SMALL_K + 1
          /\ pc' = "seg"
          /\ UNCHANGED <<k, p, t>>
  /\ UNCHANGED <<N, window, _limit, table, K, SMALL_N, SMALL_K, i, prime_p,
                 next_multiple_t, segment_end, segments>>
  /\ UNCHANGED useVars /\ UNCHANGED cmpVars

\* lines 180-185: the inner bootstrap loop, then the two push_back calls
BootInner ==
  /\ pc = "bootInner"
  /\ IF BootCond(t, SMALL_K)
     THEN /\ acc' = {t}
          /\ table' = BitReset(table, t)
          /\ t' = t + p
          /\ UNCHANGED <<k, prime_p, next_multiple_t, pc>>
     ELSE /\ acc' = {}
          /\ prime_p' = Append(prime_p, p)
          /\ next_multiple_t' = Append(next_multiple_t, t)
          /\ k' = k + 1
          /\ pc' = "boot"
          /\ UNCHANGED <<table, t>>
  /\ UNCHANGED <<N, window, _limit, K, SMALL_N, SMALL_K, p, i,
                 segment_start, segment_end, segments>>
  /\ UNCHANGED useVars /\ UNCHANGED cmpVars

\* line 193: T segment_end = std::min(segment_start+window, K+1)
SegmentEnd(s, w, kk) == Min(s + w, kk + 1)

\* line 191: segment_start += window
NextSegmentStart(s, w) == s + w

\* lines 191-193: the head of the loop over the windows; past the last window
\* the constructor returns
SegHead ==
  /\ pc = "seg"
  /\ acc' = {}
  /\ IF segment_start <= K
     THEN /\ segment_end' = SegmentEnd(segment_start, window, K)
          /\ segments' = Append(segments, <<segment_start, SegmentEnd(segment_start, window, K)>>)
          /\ i' = 0
          /\ pc' = "segPrime"
          /\ UNCHANGED <<N, window, K, SMALL_N, SMALL_K, k, p, t, prime_p,
                         next_multiple_t, segment_start>>
     ELSE /\ Leave("done")
          /\ segments' = <<>>
  /\ UNCHANGED <<_limit, table>>
  /\ UNCHANGED useVars /\ UNCHANGED cmpVars

\* the advanced cursor not stored
PersistNot(nm, j, tt) == nm

\* line 204: next_multiple_t[i] = t
Persist(nm, j, tt) == [nm EXCEPT ![j + 1] = tt]

\* lines 194-199: the head of the loop over the small primes (i counts from 0,
\* the sequences from 1)
SegPrime ==
  /\ pc = "segPrime"
  /\ acc' = {}
  /\ IF i < Len(prime_p)
     THEN /\ t' = next_multiple_t[i + 1]
          /\ IF next_multiple_t[i + 1] < segment_end
             THEN /\ p' = prime_p[i + 1]
                  /\ pc' = "segInner"
                  /\ UNCHANGED i
             ELSE /\ i' = i + 1
                  /\ UNCHANGED <<p, pc>>
          /\ UNCHANGED segment_start
     ELSE /\ segment_start' = NextSegmentStart(segment_start, window)
          /\ pc' = "seg"
          /\ UNCHANGED <<p, t, i>>
  /\ UNCHANGED <<N, window, _limit, table, K, SMALL_N, SMALL_K, k, prime_p,
                 next_multiple_t, segment_end, segments>>
  /\ UNCHANGED useVars /\ UNCHANGED cmpVars

\* lines 200-204: the inner loop of a window, then the store of the cursor
SegInner ==
  /\ pc = "segInner"
  /\ IF t < segment_end
     THEN /\ acc' = {t}
          /\ table' = BitReset(table, t)
          /\ t' = t + p
          /\ UNCHANGED <<next_multiple_t, i, pc>>
     ELSE /\ acc' = {}
          /\ next_multiple_t' = Persist(next_multiple_t, i, t)
          /\ i' = i + 1
          /\ pc' = "segPrime"
          /\ UNCHANGED <<table, t>>
  /\ UNCHANGED <<N, window, _limit, K, SMALL_N, SMALL_K, k, p, prime_p,
                 segment_start, segment_end, segments>>
  /\ UNCHANGED useVars /\ UNCHANGED cmpVars

Construct ==
  \/ Allocate
  \/ ResetOne
  \/ SmallSetup
  \/ BootHead
  \/ BootInner
  \/ SegHead
  \/ SegPrime
  \/ SegInner

(***************************************************************************)
(* The const member functions of a constructed table, called within their  *)
(* preconditions.                                                          *)
(***************************************************************************)
Returned(to, a, v, idxs) ==
  /\ ret = NoRet
  /\ ret' = [op |-> to, arg |-> a, val |-> v]
  /\ acc' = idxs
  /\ UNCHANGED <<pc, N, window, _limit, table, segments, cur, hist>>
  /\ UNCHANGED ctorLocals /\ UNCHANGED cmpVars

\* lines 260-279: bool test(T n), n >= 1 && n <= _limit
Test(n) ==
  /\ pc = "done"
  /\ n >= 1 /\ n <= _limit
  /\ Returned("test", n, test(table, n), testIdx(n))

\* lines 246-250: bool test_odd(T n), n > 0 && n % 2 != 0, n <= _limit
TestOdd(n) ==
  /\ pc = "done"
  /\ n > 0 /\ n % 2 # 0 /\ n <= _limit
  /\ Returned("test_odd", n, test_odd(table, n), {OddIndex(n)})

\* lines 297-305: prime_iterator<T> lower_bound(T n)
LowerBound(n) ==
  /\ pc = "done"
  /\ Returned("lower_bound", n, lower_bound(n, _limit, table).current,
              lower_bound_idx(begin, n, _limit, table))

\* line 285: prime_iterator<T> end()
End ==
  /\ pc = "done"
  /\ Returned("end", 0, end.current, {})

Query ==
  \/ \E n \in 1..MaxN : Test(n)
  \/ \E n \in 1..MaxN : TestOdd(n)
  \/ \E n \in (0 - LbSlack)..(_limit + LbSlack) : LowerBound(n)
  \/ End

(***************************************************************************)
(* Cursors over a constructed table.                                       *)
(***************************************************************************)
\* line 282: a cursor is obtained from begin(); a slot is free when it holds
\* no cursor or one that has reached the end
Begin(c) ==
  /\ pc = "done"
  /\ ret = NoRet
  /\ cur[c] \in {NoCursor, 0}
  /\ cur' = [cur EXCEPT ![c] = begin.current]
  /\ hist' = [hist EXCEPT ![c] = <<begin.current>>]
  /\ ret' = [op |-> "begin", arg |-> c, val |-> begin.current]
  /\ acc' = {}
  /\ UNCHANGED <<pc, N, window, _limit, table, segments>>
  /\ UNCHANGED ctorLocals /\ UNCHANGED cmpVars

\* operator++ with _current shared by all cursors (a static member)
AdvanceShared(c) ==
  /\ pc = "done"
  /\ ret = NoRet
  /\ cur[c] # NoCursor
  /\ cur[c] # 0
  /\ cur' = [d \in Cursors |-> IF cur[d] = NoCursor THEN NoCursor
                                ELSE Advanced(cur[c], _limit, table)]
  /\ hist' = [d \in Cursors |-> IF cur[d] = NoCursor THEN hist[d]
                                 ELSE Append(hist[d], Advanced(cur[c], _limit, table))]
  /\ ret' = [op |-> "++", arg |-> c, val |-> Advanced(cur[c], _limit, table)]
  /\ acc' = AdvancedIdx(cur[c], _limit, table)
  /\ UNCHANGED <<pc, N, window, _limit, table, segments>>
  /\ UNCHANGED ctorLocals /\ UNCHANGED cmpVars

\* lines 376-398: operator++, _current != 0
Advance(c) ==
  /\ pc = "done"
  /\ ret = NoRet
  /\ cur[c] # NoCursor
  /\ cur[c] # 0
  /\ cur' = [cur EXCEPT ![c] = Advanced(cur[c], _limit, table)]
  /\ hist' = [hist EXCEPT ![c] = Append(hist[c], Advanced(cur[c], _limit, table))]
  /\ ret' = [op |-> "++", arg |-> c, val |-> Advanced(cur[c], _limit, table)]
  /\ acc' = AdvancedIdx(cur[c], _limit, table)
  /\ UNCHANGED <<pc, N, window, _limit, table, segments>>
  /\ UNCHANGED ctorLocals /\ UNCHANGED cmpVars

Iterate ==
  \/ \E c \in Cursors : Begin(c)
  \/ \E c \in Cursors : Advance(c)

\* the caller is done with the value a call returned; the next call follows
Forget ==
  /\ pc = "done"
  /\ ret # NoRet
  /\ ret' = NoRet
  /\ acc' = {}
  /\ UNCHANGED <<pc, N, window, _limit, table, segments, cur, hist>>
  /\ UNCHANGED ctorLocals /\ UNCHANGED cmpVars

(***************************************************************************)
(* Comparison of two iterators built by prime_iterator(table, current),    *)
(* lines 363-364 and 404-414.  The operators read _current only.           *)
(***************************************************************************)
Iterators == [table : Tables, current : 0..MaxCurrent]

Compare(x, y) ==
  /\ lhs' = x
  /\ rhs' = y
  /\ eq' = IterEq(x, y)
  /\ ne' = IterNe(x, y)
  /\ UNCHANGED <<pc, N, window, _limit, table, segments, acc>>
  /\ UNCHANGED ctorLocals /\ UNCHANGED useVars

NextEq == \E x \in Iterators, y \in Iterators : Compare(x, y)

(***************************************************************************)
(* Specifications.                                                         *)
(***************************************************************************)
\* construction and the primality queries, limits up to MaxN
NextSieve == Construct \/ Query \/ Forget

SpecSieve == Init /\ [][NextSieve]_vars

\* construction, queries and cursors in any interleaving, limits up to MaxUseN
InitUse == Init /\ N <= MaxUseN

Next == Construct \/ Query \/ Iterate \/ Forget

Spec == InitUse /\ [][Next]_vars

\* construction and cursors; every enabled statement of the constructor is
\* eventually executed, and a caller that holds a live cursor keeps advancing
\* it (the loop  for (it = begin(); it != end(); ++it))
NextWalk == Construct \/ Iterate \/ Forget

FairSpec ==
  /\ InitUse
  /\ [][NextWalk]_vars
  /\ WF_vars(Construct)
  /\ WF_vars(Forget)
  /\ \A c \in Cursors : SF_vars(Advance(c))

\* comparisons of iterators
InitEq == Init /\ N = 0 /\ window = WINDOW

SpecEq == InitEq /\ [][NextEq]_vars

(***************************************************************************)
(* Reference definitions for the properties.                               *)
(***************************************************************************)
\* the primes <= n in ascending order
PrimeSeq(n) ==
  LET S == {q \in 2..n : IsPrime(q)}
  IN  [m \in 1..Cardinality(S) |->
         CHOOSE q \in S : Cardinality({r \in S : r <= q}) = m]

\* the odd primes q with q*q <= n in ascending order
SmallPrimeSeq(n) == SelectSeq(PrimeSeq(n), LAMBDA q : q # 2 /\ q * q <= n)

\* the smallest prime q with n <= q <= lim, 0 when there is none
LeastPrimeFrom(n, lim) ==
  LET S == {q \in n..lim : IsPrime(q)}
  IN  IF S = {} THEN 0 ELSE CHOOSE q \in S : \A r \in S : q <= r

\* the values a cursor has shown before it reached the end
Walked(c) == SubSeq(hist[c], 1, Len(hist[c]) - 1)

IsPrefix(u, v) == Len(u) <= Len(v) /\ SubSeq(v, 1, Len(u)) = u

(***************************************************************************)
(* C1.  After prime_table(N) has been constructed, test(n) is true exactly *)
(* when n is prime, for every n in 1..N: false for 1, true for 2, false    *)
(* for the other even n, and for odd n >= 3 the bit at index (n-1)/2 is    *)
(* set iff n has no divisor d with 1 < d < n.                              *)
(***************************************************************************)
TestIsPrimality ==
  pc = "done" =>
    /\ \A n \in 1.._limit : test(table, n) = IsPrime(n)
    /\ \A n \in 3.._limit :
         n % 2 = 1 => (BitTest(table, (n - 1) \div 2) <=> IsPrime(n))
    /\ ret.op = "test" => ret.val = IsPrime(ret.arg)

\* test(81) has returned false on a table whose bootstrap phase crossed out 9
TestIsPrimalityWitness ==
  pc = "done" /\ _limit >= 81 /\ ret.op = "test" /\ ret.arg = 81 /\ ret.val = FALSE

(***************************************************************************)
(* C2.  The values shown by a cursor from begin() until it equals end()    *)
(* are strictly increasing and are exactly the primes <= N, ascending.     *)
(***************************************************************************)
WalkIsPrimesUpToLimit ==
  \A c \in Cursors :
    (cur[c] = 0 /\ hist[c] # <<>>) =>
      /\ Walked(c) = PrimeSeq(_limit)
      /\ \A m \in 1..(Len(Walked(c)) - 1) : Walked(c)[m] < Walked(c)[m + 1]
      /\ \A m \in 1..Len(Walked(c)) : Walked(c)[m] <= _limit

(***************************************************************************)
(* C3.  The cursor begin() returns is at 2 when the table has a prime      *)
(* (N >= 2) and is the end cursor (current = 0) when it has none (N = 0,   *)
(* N = 1).                                                                 *)
(***************************************************************************)
BeginIsFirstPrimeOrEnd ==
  \A c \in Cursors :
    Len(hist[c]) = 1 =>
      /\ hist[c][1] = (IF _limit >= 2 THEN 2 ELSE 0)
      /\ (_limit < 2 => IterEq([table |-> "t1", current |-> hist[c][1]], end))

(***************************************************************************)
(* C4.  lower_bound(n) is at the smallest prime q with n <= q <= N, and is *)
(* end() when there is no such prime.                                      *)
(***************************************************************************)
LowerBoundIsLeastPrime ==
  ret.op = "lower_bound" => ret.val = LeastPrimeFrom(ret.arg, _limit)

(***************************************************************************)
(* C5.  a == b is true iff both cursors have current = 0, whatever their   *)
(* tables; a != b is its negation; a cursor that is not at the end is not  *)
(* equal to itself; the relation is symmetric.                             *)
(***************************************************************************)
EqualIffBothEnd ==
  /\ eq = ((lhs.current = 0) /\ (rhs.current = 0))
  /\ ne = ~ eq
  /\ IterEq(rhs, lhs) = eq
  /\ (lhs.current # 0 => ~ IterEq(lhs, lhs))

\* two cursors at the same value of the same table compared, and found unequal
EqualIffBothEndWitness ==
  lhs = rhs /\ lhs.current = 3 /\ eq = FALSE /\ ne = TRUE

(***************************************************************************)
(* C6.  No call on a constructed table or on a cursor changes the limit or *)
(* a bit; advancing a cursor leaves the other cursors where they are; two  *)
(* cursors from begin() show the same values, however their advances       *)
(* interleave.                                                             *)
(***************************************************************************)
TableAndOtherCursorsKept ==
  [][pc = "done" =>
       /\ _limit' = _limit
       /\ table' = table
       /\ \A c \in Cursors : cur'[c] # cur[c] =>
            \A d \in Cursors \ {c} : cur'[d] = cur[d] /\ hist'[d] = hist[d]
       /\ \A c, d \in Cursors :
            IsPrefix(hist'[c], hist'[d]) \/ IsPrefix(hist'[d], hist'[c])]_vars

\* cursor a has been advanced three times and cursor b once
TableAndOtherCursorsKeptWitness ==
  pc = "done" /\ cur["a"] = 7 /\ cur["b"] = 3 /\ ret.op = "++"

(***************************************************************************)
(* C7.  Every index passed to the bit store, by the constructor, by test   *)
(* and test_odd and by operator++, lies in [0, size), size = (N+1)/2 being *)
(* the number of bits allocated.                                           *)
(***************************************************************************)
IndicesInRange ==
  pc # "call" => \A j \in acc : 0 <= j /\ j < CDiv(_limit + 1, 2) /\ InRange(table, j)

(***************************************************************************)
(* C8.  When the bootstrap loop has finished, bit j is set iff 2j+1 is     *)
(* prime for j in 1..SMALL_K, prime_p is the ascending sequence of the odd *)
(* primes <= isqrt(N), and the entry of next_multiple_t for p = 2j+1 is    *)
(* the smallest index u > SMALL_K with u >= 2j(j+1) and u congruent to     *)
(* 2j(j+1) modulo p.                                                       *)
(***************************************************************************)
BootstrapDone == pc = "boot" /\ k > SMALL_K

BootstrapResult ==
  BootstrapDone =>
    /\ \A j \in 1..SMALL_K : BitTest(table, j) <=> IsPrime(2 * j + 1)
    /\ prime_p = SmallPrimeSeq(N)
    /\ \A m \in 1..(Len(prime_p) - 1) : prime_p[m] < prime_p[m + 1]
    /\ Len(next_multiple_t) = Len(prime_p)
    /\ \A m \in 1..Len(prime_p) :
         LET q == prime_p[m]
             j == (q - 1) \div 2
             first == 2 * j * (j + 1)
             IsCandidate(u) == u > SMALL_K /\ u >= first /\ (u - first) % q = 0
         IN  /\ IsCandidate(next_multiple_t[m])
             /\ \A u \in 0..(next_multiple_t[m] - 1) : ~ IsCandidate(u)
             /\ (2 * next_multiple_t[m] + 1) % q = 0
             /\ 2 * next_multiple_t[m] + 1 >= q * q

\* the bootstrap loop has finished with 3, 5 and 7 recorded and 9 crossed out
BootstrapResultWitness ==
  BootstrapDone /\ prime_p = <<3, 5, 7>> /\ ~ BitTest(table, 4)

(***************************************************************************)
(* C9.  In the segmented phase: at the start of a window every stored      *)
(* cursor is >= segment_start and indexes an odd multiple of its prime     *)
(* that is >= the prime's square; only indices of the window are reset,    *)
(* each of a composite, and no bit of a prime is ever cleared; when the    *)
(* window is done every cursor is >= segment_end; the windows are          *)
(* contiguous and disjoint and cover exactly SMALL_K+1 .. K.  For every    *)
(* window width.                                                           *)
(***************************************************************************)
InSegments == pc \in {"seg", "segPrime", "segInner"}

WindowStart == pc = "segPrime" /\ i = 0

WindowDone == pc = "segPrime" /\ i = Len(prime_p)

SegmentedPhase ==
  /\ pc \notin {"call", "threw", "crashed"} =>
       \A j \in DOMAIN table : (j >= 1 /\ IsPrime(2 * j + 1)) => BitTest(table, j)
  /\ InSegments =>
       /\ \A m \in 1..Len(prime_p) :
            /\ (2 * next_multiple_t[m] + 1) % prime_p[m] = 0
            /\ 2 * next_multiple_t[m] + 1 >= prime_p[m] * prime_p[m]
       /\ \A j \in acc :
            /\ segment_start <= j /\ j < segment_end
            /\ ~ IsPrime(2 * j + 1)
            /\ ~ BitTest(table, j)
       /\ \A m \in 1..Len(segments) :
            /\ segments[m][1] < segments[m][2]
            /\ segments[m][1] = (IF m = 1 THEN SMALL_K + 1 ELSE segments[m - 1][2])
            /\ segments[m][2] <= K + 1
            /\ segments[m][2] - segments[m][1] <= window
  /\ WindowStart =>
       /\ segments[Len(segments)] = <<segment_start, segment_end>>
       /\ \A m \in 1..Len(prime_p) : next_multiple_t[m] >= segment_start
  /\ WindowDone =>
       \A m \in 1..Len(prime_p) : next_multiple_t[m] >= segment_end
  /\ (pc = "seg" /\ segment_start > K) =>
       IF SMALL_K + 1 <= K
       THEN segments # <<>> /\ segments[Len(segments)][2] = K + 1
       ELSE segments = <<>>

\* the third window of width 3 is done, and it crossed out a multiple of 5
SegmentedPhaseWitness ==
  /\ WindowDone /\ window = 3 /\ Len(segments) = 3
  /\ \E m \in 1..Len(prime_p) :
       prime_p[m] = 5 /\ next_multiple_t[m] > SquareIndex(2)

(***************************************************************************)
(* C10.  For every N >= 0 the constructor terminates, both loops running   *)
(* to their end, and every cursor from begin() reaches the end state after *)
(* finitely many advances.                                                 *)
(***************************************************************************)
ConstructorAndWalkTerminate ==
  /\ <>(pc = "done")
  /\ \A c \in Cursors : (cur[c] > 0) ~> (cur[c] = 0)
====
